---- MODULE Spec2Model ----
(***************************************************************************)
(* Model of the typed AsyncMarkov class (src/unnamed/part_001).            *)
(*                                                                         *)
(* Strings are sequences of one-character strings, so that trimming,       *)
(* whitespace collapsing, splitting and the sentence regex are computed    *)
(* and not assumed.  A Word is a non-empty sequence of characters.         *)
(*                                                                         *)
(* Numbers are integers and NaN; null, which JSON text has in the place of *)
(* NaN, counts as 0 in every sum and increment the class makes.            *)
(*                                                                         *)
(* Node objects live in a heap and are referred to by identity: the Map    *)
(* of an instance and the words array of a Representation returned by      *)
(* toJSON hold references to Node objects, not copies.  A Representation   *)
(* is handed to load as soon as toJSON has returned it, as in              *)
(* other.load(model.toJSON()) and AsyncMarkov.create(model.toJSON()).      *)
(***************************************************************************)
EXTENDS Integers, Sequences, FiniteSets, TLC

VARIABLES heap, nodes, edges, hasSentences, raised, ingested, punctuated,
          call, output, error, words, sentences,
          asyncWords, asyncHasSentences, busy, prepared, calls, proc,
          immediates, stream

\* the fields of the AsyncMarkov of src/index.js
indexVars == <<words, sentences>>

\* the fields of the AsyncMarkov of src/unnamed/part_002, the _addWords
\* calls made so far, the process call in flight and the tasks of the event
\* loop
asyncVars ==
  <<asyncWords, asyncHasSentences, busy, prepared, calls, proc, immediates, stream>>

\* what the calls on the typed class leave alone
others == <<indexVars, asyncVars>>

vars ==
  <<heap, nodes, edges, hasSentences, raised, ingested, punctuated, call, output,
    error, others>>

(***************************************************************************)
(* Bounds                                                                  *)
(***************************************************************************)
\* cap on the number of word pairs the add calls of a run on one model
\* ingest, and on its #edges counter
MaxEdges == 4

\* the same cap for a run on two models
MaxShared == 2

\* the AsyncMarkov instances: a model, and a second one made beside it
Inst == {1, 2}

(***************************************************************************)
(* Values                                                                  *)
(***************************************************************************)
\* null / undefined / "" : the falsy value of a Word | null
Null == <<>>

EmptyMap == [x \in {} |-> 0]

\* the number NaN
NaN == -1

\* a + b and a < b on numbers
JsAdd(a, b) == IF a = NaN \/ b = NaN THEN NaN ELSE a + b

JsLess(a, b) == a # NaN /\ b # NaN /\ a < b

\* the words that name a property every object inherits from
\* Object.prototype; the value inherited is a function
Inherited == { <<"c", "o", "n", "s", "t", "r", "u", "c", "t", "o", "r">> }

\* the texts handed to add
Texts ==
  { <<"a", " ", "b">>,
    <<"a", " ", "a">>,
    <<" ", "b", ".", " ", "\t", "a", "\n">>,
    <<"a">> }

\* the same, and a text with a word that names an inherited property
TextsInherited ==
  Texts \cup { <<"a", " ", "c", "o", "n", "s", "t", "r", "u", "c", "t", "o", "r">> }

(***************************************************************************)
(* Tokenizing: string.trim().replace(/\s+/g, " ").split(" ").filter(Boolean)*)
(***************************************************************************)
IsSpace(c) == c \in {" ", "\t", "\n"}

\* the regex /./ : any character
sentenceRegexTestAny(s) == \E k \in 1..Len(s) : s[k] # "\n"

\* sentenceRegex = /[?!.]/
sentenceRegexTest(s) == \E k \in 1..Len(s) : s[k] \in {"?", "!", "."}

RECURSIVE TrimLeft(_)
TrimLeft(s) ==
  IF s = <<>> THEN <<>>
  ELSE IF IsSpace(Head(s)) THEN TrimLeft(Tail(s)) ELSE s

RECURSIVE TrimRight(_)
TrimRight(s) ==
  IF s = <<>> THEN <<>>
  ELSE IF IsSpace(s[Len(s)]) THEN TrimRight(SubSeq(s, 1, Len(s) - 1)) ELSE s

Trim(s) == TrimRight(TrimLeft(s))

\* replace(/\s+/g, " "): every maximal run of whitespace becomes one space
RECURSIVE ReplaceWhitespace(_)
ReplaceWhitespace(s) ==
  IF s = <<>> THEN <<>>
  ELSE IF IsSpace(Head(s))
       THEN <<" ">> \o ReplaceWhitespace(TrimLeft(s))
       ELSE <<Head(s)>> \o ReplaceWhitespace(Tail(s))

\* split(" "): cur is the piece being read
RECURSIVE SplitFrom(_, _)
SplitFrom(s, cur) ==
  IF s = <<>> THEN <<cur>>
  ELSE IF Head(s) = " "
       THEN <<cur>> \o SplitFrom(Tail(s), <<>>)
       ELSE SplitFrom(Tail(s), Append(cur, Head(s)))

Split(s) == SplitFrom(s, <<>>)

\* filter(Boolean): the empty string is falsy
FilterBoolean(q) == SelectSeq(q, LAMBDA t : t # <<>>)

Tokenize(string) == FilterBoolean(Split(ReplaceWhitespace(Trim(string))))

Range(f) == {f[x] : x \in DOMAIN f}

\* every word of the texts
Words == UNION {Range(Tokenize(t)) : t \in TextsInherited}

\* the text "The cat sat. The dog ran."
ScenarioText ==
  << "T", "h", "e", " ", "c", "a", "t", " ", "s", "a", "t", ".", " ",
     "T", "h", "e", " ", "d", "o", "g", " ", "r", "a", "n", "." >>

\* the text, its two sentences, and "The dog"
ScenarioTexts ==
  {ScenarioText, SubSeq(ScenarioText, 1, 12), SubSeq(ScenarioText, 14, 25),
   SubSeq(ScenarioText, 14, 20)}

ScenarioWords == UNION {Range(Tokenize(t)) : t \in ScenarioTexts}

(***************************************************************************)
(* Nodes                                                                   *)
(*   total   : number                                                      *)
(*   mapped  : boolean                                                     *)
(*   sums    : Record<string, Word>, integer keys, read in increasing order*)
(*   related : Record<Word, number>, kept as the sequence of its           *)
(*             properties in insertion order (the order of Object.keys)    *)
(***************************************************************************)
initNode == [total |-> 0, mapped |-> FALSE, sums |-> EmptyMap, related |-> <<>>]

\* Object.keys(node.related)
RelatedKeys(node) == {node.related[k].word : k \in 1..Len(node.related)}

\* the place of the property w in node.related, 0 when there is none
RelatedIndex(node, w) ==
  IF w \in RelatedKeys(node)
  THEN (CHOOSE k \in 1..Len(node.related) : node.related[k].word = w)
  ELSE 0

\* node.related[w], 0 standing for undefined
RelatedGet(node, w) ==
  IF RelatedIndex(node, w) = 0 THEN 0 ELSE node.related[RelatedIndex(node, w)].count

\* typeof node.related[w] === "undefined": related is a plain object, so
\* the lookup also finds what Object.prototype has
RelatedUndefined(node, w) == w \notin RelatedKeys(node) /\ w \notin Inherited

\* the number node.related[second]++ starts from: the 0 add has just put
\* there, an own count, or the inherited function, which is NaN as a number
RelatedBefore(node, second) ==
  IF RelatedUndefined(node, second) THEN 0
  ELSE IF second \in RelatedKeys(node) THEN RelatedGet(node, second)
  ELSE NaN

\* one observation of `second` on a node: the body of the loop of add.  An
\* assignment to a property the object does not own makes it an own one,
\* last in the order of keys.
NodeObserve(node, second) ==
  LET rel0 == IF second \notin RelatedKeys(node)
              THEN Append(node.related, [word |-> second, count |-> 0])
              ELSE node.related
      k    == CHOOSE k \in 1..Len(rel0) : rel0[k].word = second
  IN  [node EXCEPT !.total   = node.total + 1,
                   !.mapped  = FALSE,
                   !.related = [rel0 EXCEPT ![k].count = JsAdd(RelatedBefore(node, second), 1)]]

\* the loop of calculateWeights, from the i-th key on
RECURSIVE WeightsLoop(_, _, _, _)
WeightsLoop(related, i, total, sums) ==
  IF i > Len(related) THEN sums
  ELSE WeightsLoop(related, i + 1, JsAdd(total, related[i].count),
                   (JsAdd(total, related[i].count) :> related[i].word) @@ sums)

\* calculateWeights that empties related where the other variants empty sums
calculateWeightsClearsRelated(node, force) ==
  IF node.mapped /\ ~force THEN node
  ELSE [node EXCEPT !.sums    = WeightsLoop(node.related, 1, 0, node.sums),
                    !.related = <<>>,
                    !.mapped  = TRUE]

calculateWeights(node, force) ==
  IF node.mapped /\ ~force THEN node
  ELSE [node EXCEPT !.sums   = WeightsLoop(node.related, 1, 0, node.sums),
                    !.mapped = TRUE]

\* the rolls Math.trunc(Math.random() * total) can produce
Rolls(total) == IF total > 0 THEN 0..(total - 1) ELSE {0}

SetMin(S) == CHOOSE x \in S : \A y \in S : x <= y

RECURSIVE Ascending(_)
Ascending(S) ==
  IF S = {} THEN <<>> ELSE <<SetMin(S)>> \o Ascending(S \ {SetMin(S)})

\* Object.keys(node.sums): integer keys come first, in increasing order, the
\* key "NaN" after them
SumsKeys(node) ==
  Ascending(DOMAIN node.sums \ {NaN})
    \o (IF NaN \in DOMAIN node.sums THEN <<NaN>> ELSE <<>>)

\* the loop of selectWeighted over the keys, from the i-th on
RECURSIVE PickLoop(_, _, _, _)
PickLoop(node, keys, i, roll) ==
  IF i > Len(keys) THEN Null
  ELSE IF JsLess(roll, keys[i]) THEN node.sums[keys[i]]
  ELSE PickLoop(node, keys, i + 1, roll)

PickOf(node, roll) == PickLoop(node, SumsKeys(node), 1, roll)

\* selectWeighted: the node as it is left, and the word returned for a roll
selectWeightedNode(object) ==
  IF ~object.mapped THEN calculateWeights(object, FALSE) ELSE object

selectWeighted(object, roll) == PickOf(selectWeightedNode(object), roll)

(***************************************************************************)
(* Heap                                                                    *)
(*                                                                         *)
(* A node object is named by the set of places that hold a reference to    *)
(* it, <<i, w>> being the entry of w in the Map of instance i.  Two places *)
(* name the same object exactly when they hold the same reference; the     *)
(* name itself is nothing the program can read.                            *)
(***************************************************************************)
\* the name of a node object just made for the entry of w in instance i
FreshId(i, w) == {<<i, w>>}

\* the node objects some instance refers to
Reachable(n) == UNION {Range(n[i]) : i \in Inst}

\* garbage collection: unreferenced node objects are gone
Collect(h, n) == [id \in DOMAIN h \cap Reachable(n) |-> h[id]]

\* the places that refer to the object id
Places(id, n) ==
  {pl \in Inst \X (Words \cup ScenarioWords) : pl[2] \in DOMAIN n[pl[1]] /\ n[pl[1]][pl[2]] = id}

\* the heap and the Maps with every object named by its places
Named(h, n) ==
  LET live == DOMAIN h \cap Reachable(n)
  IN  [heap  |-> [nm \in {Places(id, n) : id \in live} |->
                    h[CHOOSE id \in live : Places(id, n) = nm]],
       nodes |-> [i \in Inst |-> [w \in DOMAIN n[i] |-> Places(n[i][w], n)]]]

RECURSIVE SumOver(_, _)
SumOver(f, S) ==
  IF S = {} THEN 0
  ELSE LET x == CHOOSE y \in S : TRUE IN f[x] + SumOver(f, S \ {x})

(***************************************************************************)
(* State                                                                   *)
(*   heap         : node id -> Node                                        *)
(*   nodes        : #nodes of each instance, Word -> node id               *)
(*   edges        : #edges of each instance                                *)
(*   hasSentences : #hasSentences of each instance                         *)
(*   raised       : whether the last call ended in an error being thrown   *)
(*   ingested     : the number of word pairs ingested by the add calls so  *)
(*                  far, over all instances                                *)
(*   punctuated   : whether a text handed to add so far had one of the     *)
(*                  characters . ! ?                                       *)
(*   call         : the last call, when that was generateWords or          *)
(*                  generateSentences: its name and arguments              *)
(*   output       : the array `output` of the last call, when that was     *)
(*                  generateWords or generateSentences and it returned;    *)
(*                  the string returned is output.join(" ")                *)
(*   error        : the error thrown by the last call, when that was        *)
(*                  generateWords or generateSentences: "amount" (not a    *)
(*                  positive finite integer), "delimiters" (no sentences), *)
(*                  "empty" (no processed data), "none"                    *)
(*   words        : #words of the model of src/index.js, Word -> node      *)
(*   sentences    : its #hasSentences                                      *)
(*   asyncWords, asyncHasSentences, busy, prepared : #words, #hasSentences,*)
(*                  #busy, #prepared of the model of src/unnamed/part_002  *)
(*   calls        : the _addWords calls made so far, <<first, second>>     *)
(*   proc         : the last process call that took #busy: its arguments,  *)
(*                  the length of calls when it was made, and the state of *)
(*                  its promise                                            *)
(*   immediates   : the coroutines suspended at await waitImmediate(), in  *)
(*                  the order of their setImmediate calls                  *)
(*   stream       : the stream being read: the chunks not yet delivered    *)
(***************************************************************************)
\* a number handed as amount: an integer n, the fraction n + 1/2, Infinity
\* (-Infinity when n < 0), NaN
Number(kind, n) == [kind |-> kind, n |-> n]

\* a call that is not one of generateWords, generateSentences
NoCall == [op |-> "other", amount |-> Number("integer", 0), root |-> Null, stop |-> FALSE]

\* an input of process: a string, a Uint8Array, a stream of chunks, or a
\* value of another type; data is the sequence of its pieces
AsyncInput(kind, data) == [kind |-> kind, data |-> data]

NoProcess == [status |-> "none", input |-> AsyncInput("other", <<>>),
              forceBlocking |-> FALSE, from |-> 0]

NoStream == [open |-> FALSE, chunks |-> <<>>, forceBlocking |-> FALSE]

Init ==
  /\ heap = EmptyMap
  /\ nodes = [i \in Inst |-> EmptyMap]
  /\ edges = [i \in Inst |-> 0]
  /\ hasSentences = [i \in Inst |-> "false"]
  /\ raised = FALSE
  /\ ingested = 0
  /\ punctuated = FALSE
  /\ call = NoCall
  /\ output = <<>>
  /\ error = "none"
  /\ words = EmptyMap
  /\ sentences = FALSE
  /\ asyncWords = EmptyMap
  /\ asyncHasSentences = FALSE
  /\ busy = FALSE
  /\ prepared = FALSE
  /\ calls = <<>>
  /\ proc = NoProcess
  /\ immediates = <<>>
  /\ stream = NoStream

\* truthiness of a #hasSentences value
Truthy(v) == v = "true"

(***************************************************************************)
(* add                                                                     *)
(***************************************************************************)
\* one iteration of the loop of add that makes an entry for `second` too
AddPairBothEntries(st, first, second) ==
  LET mk(h, m, w) == IF w \in DOMAIN m THEN [heap |-> h, map |-> m]
                     ELSE [heap |-> (FreshId(st.inst, w) :> initNode) @@ h,
                           map  |-> (w :> FreshId(st.inst, w)) @@ m]
      s1 == mk(st.heap, st.map, first)
      s2 == mk(s1.heap, s1.map, second)
      id == s2.map[first]
  IN  [heap  |-> [s2.heap EXCEPT ![id] = NodeObserve(s2.heap[id], second)],
       map   |-> s2.map,
       edges |-> st.edges + 1,
       inst  |-> st.inst]

\* st = [heap, map, edges] of instance st.inst; one iteration of the loop of add
AddPair(st, first, second) ==
  LET isNew == first \notin DOMAIN st.map
      id    == IF isNew THEN FreshId(st.inst, first) ELSE st.map[first]
      h1    == IF isNew THEN (id :> initNode) @@ st.heap ELSE st.heap
      m1    == IF isNew THEN (first :> id) @@ st.map ELSE st.map
  IN  [heap  |-> [h1 EXCEPT ![id] = NodeObserve(h1[id], second)],
       map   |-> m1,
       edges |-> st.edges + 1,
       inst  |-> st.inst]

RECURSIVE AddLoop(_, _, _)
AddLoop(st, data, i) ==
  IF i > Len(data) THEN st
  ELSE AddLoop(AddPair(st, data[i - 1], data[i]), data, i + 1)

AddResult(i, string) ==
  LET data == Tokenize(string)
      st0  == [heap |-> heap, map |-> nodes[i], edges |-> edges[i], inst |-> i]
  IN  IF Len(data) < 2 THEN st0 ELSE AddLoop(st0, data, 2)

\* add with the flag set from the words that were stored as successors
\* instead of from the raw string
AddFlagFromSuccessors(i, string, cap) ==
  LET st   == AddResult(i, string)
      data == Tokenize(string)
  IN  /\ ingested + (st.edges - edges[i]) <= cap
      /\ st.edges <= cap
      /\ ingested' = ingested + (st.edges - edges[i])
      /\ punctuated' = (punctuated \/ \E k \in 1..Len(string) : string[k] \in {".", "!", "?"})
      /\ hasSentences' =
           [hasSentences EXCEPT ![i] =
              IF ~Truthy(hasSentences[i])
              THEN (IF \E k \in 2..Len(data) : sentenceRegexTest(data[k])
                    THEN "true" ELSE "false")
              ELSE hasSentences[i]]
      /\ LET nm == Named(st.heap, [nodes EXCEPT ![i] = st.map])
         IN  heap' = nm.heap /\ nodes' = nm.nodes
      /\ edges' = [edges EXCEPT ![i] = st.edges]
      /\ output' = <<>> /\ call' = NoCall /\ error' = "none"
      /\ raised' = FALSE
      /\ UNCHANGED others

\* cap: the number of pairs the run may ingest, and the most #edges may be
Add(i, string, cap) ==
  LET st == AddResult(i, string)
  IN  /\ ingested + (st.edges - edges[i]) <= cap
      /\ st.edges <= cap
      /\ ingested' = ingested + (st.edges - edges[i])
      /\ punctuated' = (punctuated \/ \E k \in 1..Len(string) : string[k] \in {".", "!", "?"})
      /\ hasSentences' =
           [hasSentences EXCEPT ![i] =
              IF ~Truthy(hasSentences[i])
              THEN (IF sentenceRegexTest(string) THEN "true" ELSE "false")
              ELSE hasSentences[i]]
      /\ LET nm == Named(st.heap, [nodes EXCEPT ![i] = st.map])
         IN  heap' = nm.heap /\ nodes' = nm.nodes
      /\ edges' = [edges EXCEPT ![i] = st.edges]
      /\ raised' = FALSE
      /\ output' = <<>> /\ call' = NoCall /\ error' = "none"
      /\ UNCHANGED others

(***************************************************************************)
(* reset, finalize                                                         *)
(***************************************************************************)
Reset(i) ==
  /\ LET nm == Named(heap, [nodes EXCEPT ![i] = EmptyMap])
     IN  heap' = nm.heap /\ nodes' = nm.nodes
  /\ UNCHANGED <<edges, hasSentences, ingested, punctuated, others>>
  /\ raised' = FALSE
  /\ output' = <<>> /\ call' = NoCall /\ error' = "none"

\* heap after calculateWeights on every node of the instance
FinalizeHeap(h, i) ==
  [id \in DOMAIN h |->
     IF id \in Range(nodes[i]) THEN calculateWeights(h[id], FALSE) ELSE h[id]]

Finalize(i) ==
  /\ heap' = FinalizeHeap(heap, i)
  /\ UNCHANGED <<nodes, edges, hasSentences, ingested, punctuated, others>>
  /\ raised' = FALSE
  /\ output' = <<>> /\ call' = NoCall /\ error' = "none"

(***************************************************************************)
(* toJSON                                                                  *)
(***************************************************************************)
\* the Representation returned by toJSON: words holds the Node objects
\* themselves ([...this.#nodes.entries()])
Representation(i) ==
  [edges |-> edges[i], words |-> nodes[i], hasSentences |-> hasSentences[i]]

\* toJSON called for its own sake: the Representation is dropped
ToJSON(i) ==
  /\ heap' = FinalizeHeap(heap, i)
  /\ UNCHANGED <<nodes, edges, hasSentences, ingested, punctuated, others>>
  /\ raised' = FALSE
  /\ output' = <<>> /\ call' = NoCall /\ error' = "none"

(***************************************************************************)
(* load                                                                    *)
(***************************************************************************)
\* The inputs handed to load.  parse: what load has in `data` ("ok": an
\* object, "null": null, "syntaxerror": JSON.parse throws).  text: the
\* input is the JSON text of the object.  Fields of the object may be
\* missing, and words may be a value that is not iterable.
LoadInput(parse, text, hasEdges, wordsKind, hs, r) ==
  [parse |-> parse, text |-> text, hasEdges |-> hasEdges, edges |-> r.edges,
   wordsKind |-> wordsKind, words |-> r.words, hasSentences |-> hs]

NoFields == [edges |-> 0, words |-> EmptyMap, hasSentences |-> "undefined"]

\* inputs that are not made from a Representation
ForeignInputs ==
  { LoadInput("null", FALSE, FALSE, "absent", "undefined", NoFields),
    LoadInput("syntaxerror", TRUE, FALSE, "absent", "undefined", NoFields),
    LoadInput("ok", FALSE, FALSE, "absent", "undefined", NoFields),
    LoadInput("ok", FALSE, FALSE, "notiterable", "true", NoFields) }

\* the Representation r as it is or as its JSON text
SnapshotInput(r, text) == LoadInput("ok", text, TRUE, "array", r.hasSentences, r)

\* the inputs made from the Representation r: r itself, its text, and r
\* with a field deleted
SnapshotInputs(r) ==
  { SnapshotInput(r, FALSE),
    SnapshotInput(r, TRUE),
    [SnapshotInput(r, FALSE) EXCEPT !.hasEdges = FALSE],
    [SnapshotInput(r, TRUE) EXCEPT !.hasEdges = FALSE],
    [SnapshotInput(r, FALSE) EXCEPT !.wordsKind = "absent"],
    [SnapshotInput(r, FALSE) EXCEPT !.hasSentences = "undefined"] }

\* a node as JSON.parse(JSON.stringify(node)) gives it: NaN is written as
\* null
JsonNode(node) ==
  [node EXCEPT !.related =
     [k \in 1..Len(node.related) |->
        [node.related[k] EXCEPT !.count = IF @ = NaN THEN 0 ELSE @]]]

\* the heap and the Map made by new Map(data.words), the Map of j being
\* cleared: an object input brings its own node objects, JSON.parse of a
\* text makes new ones with the same fields
LoadWords(h, j, data) ==
  LET h0 == Collect(h, [nodes EXCEPT ![j] = EmptyMap])
  IN  IF data.wordsKind = "absent" THEN [heap |-> h0, map |-> EmptyMap]
      ELSE IF ~data.text THEN [heap |-> h, map |-> data.words]
      ELSE [heap |-> [id \in DOMAIN h0 \cup {FreshId(j, w) : w \in DOMAIN data.words} |->
                        IF id \in DOMAIN h0 THEN h0[id]
                        ELSE JsonNode(h[data.words[CHOOSE w \in DOMAIN data.words : FreshId(j, w) = id]])],
            map  |-> [w \in DOMAIN data.words |-> FreshId(j, w)]]

\* #edges after load
LoadEdges(data, cur, h, map) ==
  IF data.hasEdges THEN data.edges
  ELSE cur + SumOver([id \in Range(map) |-> h[id].total], Range(map))

\* what load does on the heap h: [threw, heap, map, edges, hasSentences]
LoadResult(h, j, data) ==
  LET same == [threw |-> TRUE, heap |-> h, map |-> nodes[j],
               edges |-> edges[j], hasSentences |-> hasSentences[j]]
  IN  IF data.parse = "syntaxerror" THEN same
      ELSE IF data.parse = "null" THEN [same EXCEPT !.map = EmptyMap]
      ELSE IF data.wordsKind = "notiterable"
           THEN [same EXCEPT !.map = EmptyMap, !.hasSentences = data.hasSentences]
      ELSE LET lw == LoadWords(h, j, data)
           IN  [threw |-> FALSE, heap |-> lw.heap, map |-> lw.map,
                edges |-> LoadEdges(data, edges[j], lw.heap, lw.map),
                hasSentences |-> data.hasSentences]

\* load on the heap h; cap: the most #edges may be
LoadOn(h, j, data, cap) ==
  LET res == LoadResult(h, j, data)
  IN  /\ res.edges <= cap
      /\ LET nm == Named(res.heap, [nodes EXCEPT ![j] = res.map])
         IN  heap' = nm.heap /\ nodes' = nm.nodes
      /\ edges' = [edges EXCEPT ![j] = res.edges]
      /\ hasSentences' = [hasSentences EXCEPT ![j] = res.hasSentences]
      /\ UNCHANGED <<ingested, punctuated, others>>
      /\ raised' = res.threw
      /\ output' = <<>> /\ call' = NoCall /\ error' = "none"

\* j.load(input) for an input not made from a Representation
Load(j, data, cap) == LoadOn(heap, j, data, cap)

\* j.load(input) for an input made from i.toJSON(); create(input) is this
\* on a new instance
LoadFrom(j, i, data, cap) == LoadOn(FinalizeHeap(heap, i), j, data, cap)

(***************************************************************************)
(* generateWord                                                            *)
(***************************************************************************)
\* key: the key keys[index] picked when root is falsy.  The word returned
\* is selectWeighted(node, roll) for the roll drawn; the state keeps only
\* what selectWeighted does to the node.
GenerateWord(i, root, key) ==
  IF nodes[i] = EmptyMap
  THEN /\ key = Null
       /\ UNCHANGED <<heap, nodes, edges, hasSentences, ingested, punctuated, others>>
       /\ raised' = TRUE
       /\ output' = <<>> /\ call' = NoCall /\ error' = "none"
  ELSE LET r == IF root = Null THEN key ELSE root
       IN  /\ IF root = Null THEN key \in DOMAIN nodes[i] ELSE key = Null
           /\ heap' = IF r \in DOMAIN nodes[i]
                      THEN [heap EXCEPT ![nodes[i][r]] = selectWeightedNode(@)]
                      ELSE heap
           /\ UNCHANGED <<nodes, edges, hasSentences, ingested, punctuated, others>>
           /\ raised' = FALSE
           /\ output' = <<>> /\ call' = NoCall /\ error' = "none"

(***************************************************************************)
(* Specifications                                                          *)
(***************************************************************************)
Roots == Words \cup {Null}

\* one model
Next ==
  \/ \E string \in Texts : Add(1, string, MaxEdges)
  \/ Reset(1)
  \/ Finalize(1)
  \/ ToJSON(1)
  \/ \E data \in ForeignInputs : Load(1, data, MaxEdges)
  \/ \E data \in SnapshotInputs(Representation(1)) : LoadFrom(1, 1, data, MaxEdges)
  \/ \E root \in Roots, key \in Roots : GenerateWord(1, root, key)

Spec == Init /\ [][Next]_vars

\* one model, and texts with a word that names an inherited property
NextInherited ==
  \/ \E string \in TextsInherited : Add(1, string, MaxEdges)
  \/ Reset(1)
  \/ Finalize(1)
  \/ ToJSON(1)
  \/ \E data \in ForeignInputs : Load(1, data, MaxEdges)
  \/ \E data \in SnapshotInputs(Representation(1)) : LoadFrom(1, 1, data, MaxEdges)
  \/ \E root \in Roots, key \in Roots : GenerateWord(1, root, key)

SpecInherited == Init /\ [][NextInherited]_vars

\* two models
NextTwo ==
  \/ \E i \in Inst, string \in TextsInherited : Add(i, string, MaxShared)
  \/ \E i \in Inst : Reset(i)
  \/ \E i \in Inst : Finalize(i)
  \/ \E i \in Inst : ToJSON(i)
  \/ \E j \in Inst, data \in ForeignInputs : Load(j, data, MaxShared)
  \/ \E j \in Inst, i \in Inst :
       \E data \in SnapshotInputs(Representation(i)) : LoadFrom(j, i, data, MaxShared)
  \/ \E i \in Inst, root \in Roots, key \in Roots : GenerateWord(i, root, key)

SpecTwo == Init /\ [][NextTwo]_vars

(***************************************************************************)
(* Numbers handed as amount                                                *)
(***************************************************************************)
\* the check with amount < 0 for amount <= 0
InvalidAmountNegative(amount) ==
  \/ CASE amount.kind = "integer"  -> amount.n < 0
       [] amount.kind = "half"     -> amount.n < 0
       [] amount.kind = "infinity" -> amount.n < 0
       [] amount.kind = "nan"      -> FALSE
  \/ amount.kind \in {"half", "nan"}
  \/ amount.kind \in {"infinity", "nan"}

\* amount <= 0 || Math.trunc(amount) !== amount || !Number.isFinite(amount)
InvalidAmount(amount) ==
  \/ CASE amount.kind = "integer"  -> amount.n <= 0
       [] amount.kind = "half"     -> amount.n < 0
       [] amount.kind = "infinity" -> amount.n < 0
       [] amount.kind = "nan"      -> FALSE
  \/ amount.kind \in {"half", "nan"}
  \/ amount.kind \in {"infinity", "nan"}

(***************************************************************************)
(* src/index.js: the untyped class                                         *)
(*                                                                         *)
(* #words is an object without prototype, a node is {total, related,      *)
(* mapped}, and mapped is null until calculateWeights makes it the object  *)
(* of thresholds.  A node is kept as [total, related, mapped, sums]:       *)
(* mapped says that the field is not null, sums is the object it holds.    *)
(* add does not trim the string and keeps the empty pieces of split.       *)
(***************************************************************************)
\* cap on the number of word pairs a model of src/index.js ingests
MaxIndexEdges == 3

\* the amounts handed to its generateWords
IndexAmounts == {Number("integer", 0), Number("integer", 1), Number("integer", 2)}

\* string.replace(whitespaceRegex, " ").split(" ")
IndexTokenize(string) == Split(ReplaceWhitespace(string))

IndexWords == UNION {Range(IndexTokenize(t)) : t \in Texts}

IndexInitNode == [total |-> 0, mapped |-> FALSE, sums |-> EmptyMap, related |-> <<>>]

\* total++ and related[second]++ on a node; mapped is left as it is
IndexObserve(node, second) ==
  LET rel0 == IF second \notin RelatedKeys(node)
              THEN Append(node.related, [word |-> second, count |-> 0])
              ELSE node.related
      k    == CHOOSE k \in 1..Len(rel0) : rel0[k].word = second
  IN  [node EXCEPT !.total   = node.total + 1,
                   !.related = [rel0 EXCEPT ![k].count = JsAdd(RelatedBefore(node, second), 1)]]

RECURSIVE IndexAddLoop(_, _, _)
IndexAddLoop(w, data, i) ==
  IF i > Len(data) THEN w
  ELSE LET first == data[i - 1]
           w1    == IF first \in DOMAIN w THEN w ELSE (first :> IndexInitNode) @@ w
       IN  IndexAddLoop([w1 EXCEPT ![first] = IndexObserve(@, data[i])], data, i + 1)

IndexAddResult(w, string) ==
  IF Len(IndexTokenize(string)) < 2 THEN w ELSE IndexAddLoop(w, IndexTokenize(string), 2)

\* the number of word pairs ingested: the sum of total over the entries
IndexTotals(w) == SumOver([x \in DOMAIN w |-> w[x].total], DOMAIN w)

\* calls on the untyped class leave the instances of the other classes alone
typedVars == <<heap, nodes, edges, hasSentences, ingested, punctuated, asyncVars>>

IndexAdd(string) ==
  /\ IndexTotals(IndexAddResult(words, string)) <= MaxIndexEdges
  /\ sentences' = (IF ~sentences THEN sentenceRegexTest(string) ELSE sentences)
  /\ words' = IndexAddResult(words, string)
  /\ raised' = FALSE
  /\ output' = <<>> /\ call' = NoCall /\ error' = "none"
  /\ UNCHANGED typedVars

\* static calculateWeights
IndexCalculateWeights(object) ==
  [object EXCEPT !.sums = WeightsLoop(object.related, 1, 0, EmptyMap), !.mapped = TRUE]

IndexFinalize ==
  /\ words' = [x \in DOMAIN words |-> IndexCalculateWeights(words[x])]
  /\ raised' = FALSE
  /\ output' = <<>> /\ call' = NoCall /\ error' = "none"
  /\ UNCHANGED <<sentences, typedVars>>

\* static selectWeighted: the node as it is left, and the word for a roll
IndexSelectWeightedNode(object) ==
  IF ~object.mapped THEN IndexCalculateWeights(object) ELSE object

IndexSelectWeighted(object, roll) == PickOf(IndexSelectWeightedNode(object), roll)

\* generateWord(root) on a model that is not empty: every [words, word] it
\* can end with, over the key and the roll drawn
IndexWordOutcomes(w, root) ==
  UNION { IF r \in DOMAIN w
          THEN { [words |-> [w EXCEPT ![r] = IndexSelectWeightedNode(w[r])],
                  word  |-> IndexSelectWeighted(w[r], roll)] :
                 roll \in Rolls(w[r].total) }
          ELSE { [words |-> w, word |-> Null] } :
          r \in (IF root = Null THEN DOMAIN w ELSE {root}) }

IndexGenerateWord(root) ==
  /\ IF words = EmptyMap
     THEN UNCHANGED words /\ raised' = TRUE
     ELSE \E res \in IndexWordOutcomes(words, root) : words' = res.words /\ raised' = FALSE
  /\ output' = <<>> /\ call' = NoCall /\ error' = "none"
  /\ UNCHANGED <<sentences, typedVars>>

\* the loop of generateWords: every [words, output] it can end with
RECURSIVE IndexWordsLoop(_, _, _, _)
IndexWordsLoop(w, amount, current, out) ==
  IF amount = 0 THEN { [words |-> w, output |-> out] }
  ELSE UNION { UNION { IndexWordsLoop(r2.words, amount - 1, r2.word, Append(out, r2.word)) :
                       r2 \in (IF r1.word = Null
                               THEN IndexWordOutcomes(r1.words, Null)
                               ELSE {r1}) } :
               r1 \in IndexWordOutcomes(w, current) }

IndexGenerateWords(amount, root) ==
  /\ IF InvalidAmount(amount) \/ words = EmptyMap
     THEN UNCHANGED words /\ raised' = TRUE /\ output' = <<>> /\ call' = NoCall /\ error' = "none"
     ELSE \E res \in IndexWordsLoop(words, amount.n, root,
                                    IF root = Null THEN <<>> ELSE <<root>>) :
            words' = res.words /\ raised' = FALSE /\ output' = res.output
                                    /\ call' = NoCall /\ error' = "none"
  /\ UNCHANGED <<sentences, typedVars>>

\* the untyped class alone
NextIndex ==
  \/ \E string \in Texts : IndexAdd(string)
  \/ IndexFinalize
  \/ \E root \in IndexWords \cup {Null} : IndexGenerateWord(root)
  \/ \E amount \in IndexAmounts, root \in IndexWords \cup {Null} : IndexGenerateWords(amount, root)

SpecIndex == Init /\ [][NextIndex]_vars

(***************************************************************************)
(* generateWords, generateSentences, calculateWeights on the typed class   *)
(***************************************************************************)
\* cap on the number of word pairs ingested before generation
MaxGen == 2

\* the largest amount handed to generateWords and generateSentences
MaxAmount == 3

\* the most iterations of the loop of generateSentences that are followed
MaxDraws == 3

\* the texts handed to add before generation
GenTexts ==
  { <<"a", " ", "b">>,
    <<"a", " ", "b", ".">>,
    <<"b", ".", " ", "a">>,
    <<"b", ".">>,
    <<"a", " ", "c", "o", "n", "s", "t", "r", "u", "c", "t", "o", "r">> }

\* the start words: none, a word with an entry, a word that may have none
GenRoots == {Null, <<"a">>, <<"b">>}

\* the amounts: integers, a fraction, the infinities, NaN
Amounts ==
  {Number("integer", n) : n \in -1..MaxAmount}
    \cup {Number("half", 1), Number("infinity", 1), Number("infinity", -1), Number("nan", 0)}

\* generateWord that draws a key at random whether or not a root is given
WordOutcomesAnyKey(h, i, root) ==
  UNION { { [heap |-> [h EXCEPT ![nodes[i][r]] = selectWeightedNode(@)],
             word |-> selectWeighted(h[nodes[i][r]], roll)] :
            roll \in Rolls(h[nodes[i][r]].total) } :
          r \in DOMAIN nodes[i] }

\* generateWord(root) on a model that is not empty: every [heap, word] it
\* can end with, over the key and the roll drawn
WordOutcomes(h, i, root) ==
  UNION { IF r \in DOMAIN nodes[i]
          THEN { [heap |-> [h EXCEPT ![nodes[i][r]] = selectWeightedNode(@)],
                  word |-> selectWeighted(h[nodes[i][r]], roll)] :
                 roll \in Rolls(h[nodes[i][r]].total) }
          ELSE { [heap |-> h, word |-> Null] } :
          r \in (IF root = Null THEN DOMAIN nodes[i] ELSE {root}) }

\* the loop of generateWords without the break at a dead end
RECURSIVE WordsLoopNoBreak(_, _, _, _, _, _)
WordsLoopNoBreak(h, i, amount, current, out, stop) ==
  IF amount = 0 THEN { [heap |-> h, output |-> out] }
  ELSE UNION { UNION { WordsLoopNoBreak(r2.heap, i, amount - 1, r2.word,
                                        Append(out, r2.word), stop) :
                       r2 \in (IF r1.word = Null
                               THEN WordOutcomes(r1.heap, i, Null)
                               ELSE {r1}) } :
               r1 \in WordOutcomes(h, i, current) }

\* the loop of generateWords: every [heap, output] it can end with
RECURSIVE WordsLoop(_, _, _, _, _, _)
WordsLoop(h, i, amount, current, out, stop) ==
  IF amount = 0 THEN { [heap |-> h, output |-> out] }
  ELSE UNION { IF r1.word = Null /\ stop
               THEN { [heap |-> r1.heap, output |-> out] }
               ELSE UNION { WordsLoop(r2.heap, i, amount - 1, r2.word,
                                      Append(out, r2.word), stop) :
                            r2 \in (IF r1.word = Null
                                    THEN WordOutcomes(r1.heap, i, Null)
                                    ELSE {r1}) } :
               r1 \in WordOutcomes(h, i, current) }

\* output as it is before the loop
OutputStart(root) == IF root = Null THEN <<>> ELSE <<root>>

GenerateWords(i, amount, root, stop) ==
  /\ UNCHANGED <<nodes, edges, hasSentences, ingested, punctuated, others>>
  /\ call' = [op |-> "generateWords", amount |-> amount, root |-> root, stop |-> stop]
  /\ IF InvalidAmount(amount) \/ nodes[i] = EmptyMap
     THEN /\ UNCHANGED heap /\ raised' = TRUE /\ output' = <<>>
          /\ error' = (IF InvalidAmount(amount) THEN "amount" ELSE "empty")
     ELSE \E res \in WordsLoop(heap, i, amount.n, root, OutputStart(root), stop) :
            heap' = res.heap /\ raised' = FALSE /\ output' = res.output /\ error' = "none"

\* the loop with the test amount >= 0 of the sentences method of
\* src/unnamed/part_002
RECURSIVE SentencesLoopOneMore(_, _, _, _, _, _)
SentencesLoopOneMore(h, i, amount, current, out, draws) ==
  IF amount < 0 THEN { [heap |-> h, output |-> out] }
  ELSE IF draws = 0 THEN {}
  ELSE UNION { SentencesLoopOneMore(r.heap, i,
                                    IF r.word # Null /\ sentenceRegexTest(r.word)
                                    THEN amount - 1 ELSE amount,
                                    r.word, Append(out, r.word), draws - 1) :
               r \in WordOutcomes(h, i, current) }

\* the loop of generateSentences: every [heap, output] it can end with in
\* at most `draws` iterations
RECURSIVE SentencesLoop(_, _, _, _, _, _)
SentencesLoop(h, i, amount, current, out, draws) ==
  IF amount <= 0 THEN { [heap |-> h, output |-> out] }
  ELSE IF draws = 0 THEN {}
  ELSE UNION { SentencesLoop(r.heap, i,
                             IF r.word # Null /\ sentenceRegexTest(r.word)
                             THEN amount - 1 ELSE amount,
                             r.word, Append(out, r.word), draws - 1) :
               r \in WordOutcomes(h, i, current) }

GenerateSentences(i, amount, root) ==
  /\ UNCHANGED <<nodes, edges, hasSentences, ingested, punctuated, others>>
  /\ call' = [op |-> "generateSentences", amount |-> amount, root |-> root, stop |-> FALSE]
  /\ IF ~Truthy(hasSentences[i]) \/ InvalidAmount(amount) \/ nodes[i] = EmptyMap
     THEN /\ UNCHANGED heap /\ raised' = TRUE /\ output' = <<>>
          /\ error' = (IF ~Truthy(hasSentences[i]) THEN "delimiters"
                       ELSE IF InvalidAmount(amount) THEN "amount" ELSE "empty")
     ELSE \E res \in SentencesLoop(heap, i, amount.n, root, OutputStart(root), MaxDraws) :
            heap' = res.heap /\ raised' = FALSE /\ output' = res.output /\ error' = "none"

\* the static calculateWeights called on the node of the entry of w
CalculateWeights(i, w, force) ==
  /\ w \in DOMAIN nodes[i]
  /\ heap' = [heap EXCEPT ![nodes[i][w]] = calculateWeights(@, force)]
  /\ raised' = FALSE
  /\ output' = <<>> /\ call' = NoCall /\ error' = "none"
  /\ UNCHANGED <<nodes, edges, hasSentences, ingested, punctuated, others>>

\* one model built by add calls, compiled and walked
NextGen ==
  \/ \E string \in GenTexts : Add(1, string, MaxGen)
  \/ Finalize(1)
  \/ ToJSON(1)
  \/ \E w \in Words, force \in BOOLEAN : CalculateWeights(1, w, force)
  \/ \E root \in Roots, key \in Roots : GenerateWord(1, root, key)
  \/ \E amount \in Amounts, root \in GenRoots, stop \in BOOLEAN :
       GenerateWords(1, amount, root, stop)
  \/ \E amount \in Amounts, root \in GenRoots : GenerateSentences(1, amount, root)

SpecGen == Init /\ [][NextGen]_vars

(***************************************************************************)
(* One model fed the text "The cat sat. The dog ran."                      *)
(***************************************************************************)
\* cap on the number of word pairs ingested from the text and its sentences
MaxScenario == 5

NextScenario ==
  \/ \E string \in ScenarioTexts : Add(1, string, MaxScenario)
  \/ Reset(1)
  \/ Finalize(1)
  \/ \E root \in ScenarioWords \cup {Null}, key \in ScenarioWords \cup {Null} :
       GenerateWord(1, root, key)

SpecScenario == Init /\ [][NextScenario]_vars

(***************************************************************************)
(* src/unnamed/part_002: the class with the asynchronous process           *)
(*                                                                         *)
(* process is an async function.  With forceBlocking false, processString  *)
(* and processBuffer await setImmediate after every _addWords call: the    *)
(* coroutine is suspended and put at the end of the queue of immediates,   *)
(* and the event loop resumes the one at the head.  What follows an await  *)
(* of a settled promise runs before any other task and is part of the same *)
(* step.  The "data" and "end" events of a stream are tasks of the event   *)
(* loop as well, delivered in order, at any time relative to immediates.   *)
(* Every process call is made from a task of its own.                      *)
(***************************************************************************)
\* cap on the length of the record of _addWords calls
MaxCalls == 4

\* data[i + 1] past the end of the array, as a property key
Undefined == <<"u", "n", "d", "e", "f", "i", "n", "e", "d">>

AsyncInputs ==
  { AsyncInput("string", << <<"a", " ", "b", ".">> >>),
    AsyncInput("buffer", << <<"a", " ", "b", " ", "c", " ">> >>),
    AsyncInput("stream", << <<"a", " ", "b", " ">> >>),
    AsyncInput("stream", << <<"a", " ", "b", " ", "c", " ">>, <<"c", " ", "a", "!", " ">> >>),
    AsyncInput("other", <<>>) }

\* _addWords on m = [words, sentences, calls]; calls records the call
AddWords(m, first, second) ==
  LET isNew == first \notin DOMAIN m.words
      node  == IF isNew THEN [total |-> 1, related |-> <<>>] ELSE
               [m.words[first] EXCEPT !.total = @ + 1]
      rel   == IF second \in RelatedKeys(node) THEN node.related
               ELSE Append(node.related, [word |-> second, count |-> 0])
      k     == CHOOSE k \in 1..Len(rel) : rel[k].word = second
      count == IF RelatedUndefined(node, second) THEN 1
               ELSE JsAdd(RelatedBefore(node, second), 1)
      done  == [node EXCEPT !.related = [rel EXCEPT ![k].count = count]]
  IN  [m EXCEPT !.words = IF isNew THEN (first :> done) @@ m.words
                          ELSE [m.words EXCEPT ![first] = done],
                !.calls = Append(m.calls, <<first, second>>)]

\* string.replace(/[^\w\d ]/g, "").replace(/\s+/g, " ").split(" ")
StringData(string) ==
  Split(ReplaceWhitespace(SelectSeq(string,
    LAMBDA c : c \notin {"\t", "\n", ".", "!", "?"})))

\* the loop of processString from index i (counted from 1) until it is
\* suspended at an await or ends: [m, i, done]
RECURSIVE StringRun(_, _, _, _)
StringRun(m, data, i, forceBlocking) ==
  IF i > Len(data) THEN [m |-> m, i |-> i, done |-> TRUE]
  ELSE LET m1 == AddWords(m, data[i], IF i < Len(data) THEN data[i + 1] ELSE Undefined)
       IN  IF forceBlocking THEN StringRun(m1, data, i + 1, forceBlocking)
           ELSE [m |-> m1, i |-> i, done |-> FALSE]

\* the loop of processBuffer from index i (counted from 1) until it is
\* suspended at an await or ends: [m, i, first, second, done]
RECURSIVE BufferRun(_, _, _, _, _, _)
BufferRun(m, buffer, i, first, second, forceBlocking) ==
  IF i > Len(buffer)
  THEN [m |-> m, i |-> i, first |-> first, second |-> second, done |-> TRUE]
  ELSE LET char == buffer[i]
           m1   == IF ~m.sentences /\ char \in {"!", ".", "?"}
                   THEN [m EXCEPT !.sentences = TRUE] ELSE m
       IN  IF char = " "
           THEN IF first # <<>>
                THEN IF forceBlocking
                     THEN BufferRun(AddWords(m1, first, second), buffer, i + 1,
                                    second, <<>>, forceBlocking)
                     ELSE [m |-> AddWords(m1, first, second), i |-> i,
                           first |-> first, second |-> second, done |-> FALSE]
                ELSE BufferRun(m1, buffer, i + 1, second, <<>>, forceBlocking)
           ELSE IF char \notin {"\t", "\n"}
                THEN BufferRun(m1, buffer, i + 1, first, Append(second, char), forceBlocking)
                ELSE BufferRun(m1, buffer, i + 1, first, second, forceBlocking)

\* a suspended coroutine: of processString over words, or of processBuffer
\* over bytes; awaited: process awaits its promise
Coroutine(kind, data, buffer, run, awaited) ==
  [kind |-> kind, words |-> data, bytes |-> buffer, i |-> run.i,
   first |-> IF kind = "buffer" THEN run.first ELSE <<>>,
   second |-> IF kind = "buffer" THEN run.second ELSE <<>>,
   awaited |-> awaited]

\* the coroutine resumed after its await: [m, i, ..., done]
Resume(m, co) ==
  IF co.kind = "string" THEN StringRun(m, co.words, co.i + 1, FALSE)
  ELSE BufferRun(m, co.bytes, co.i + 1, co.second, <<>>, FALSE)

\* the #words, #hasSentences and the record of calls as one value
AsyncModel == [words |-> asyncWords, sentences |-> asyncHasSentences, calls |-> calls]

\* the model is left as m
AsyncSet(m) ==
  /\ asyncWords' = m.words
  /\ asyncHasSentences' = m.sentences
  /\ calls' = m.calls

\* the last statements of process: the promise resolves
Resolve ==
  /\ busy' = FALSE
  /\ prepared' = TRUE
  /\ proc' = [proc EXCEPT !.status = "resolved"]

\* every _addWords call of the input when nothing is suspended, in order
RECURSIVE BlockingRun(_, _, _)
BlockingRun(m, input, k) ==
  IF k > Len(input.data) THEN m
  ELSE BlockingRun(IF input.kind = "string"
                   THEN StringRun(m, StringData(input.data[k]), 1, TRUE).m
                   ELSE BufferRun(m, input.data[k], 1, <<>>, <<>>, TRUE).m,
                   input, k + 1)

BlockingCalls(input) ==
  BlockingRun([words |-> EmptyMap, sentences |-> FALSE, calls |-> <<>>], input, 1).calls

\* calls on the class of src/unnamed/part_002 leave the other classes alone
syncVars ==
  <<heap, nodes, edges, hasSentences, raised, ingested, punctuated, call, output,
    error, indexVars>>

\* process(input, forceBlocking), up to its first suspension
Process(input, forceBlocking) ==
  /\ Len(calls) + Len(BlockingCalls(input)) <= MaxCalls
  /\ UNCHANGED syncVars
  /\ IF busy THEN UNCHANGED asyncVars
     ELSE LET started == [status |-> "pending", input |-> input,
                          forceBlocking |-> forceBlocking, from |-> Len(calls)]
              string  == input.data[1]
              m0      == [AsyncModel EXCEPT !.sentences =
                            IF ~@ THEN \E k \in 1..Len(string) : string[k] \in {"?", "!", "."}
                            ELSE @]
              run     == IF input.kind = "string"
                         THEN StringRun(m0, StringData(string), 1, forceBlocking)
                         ELSE BufferRun(AsyncModel, input.data[1], 1, <<>>, <<>>, forceBlocking)
          IN  CASE input.kind \in {"string", "buffer"} ->
                     /\ AsyncSet(run.m)
                     /\ UNCHANGED stream
                     /\ IF run.done
                        THEN /\ busy' = FALSE
                             /\ prepared' = TRUE
                             /\ proc' = [started EXCEPT !.status = "resolved"]
                             /\ UNCHANGED immediates
                        ELSE /\ busy' = TRUE
                             /\ proc' = started
                             /\ immediates' =
                                  Append(immediates,
                                         IF input.kind = "string"
                                         THEN Coroutine("string", StringData(string), <<>>, run, TRUE)
                                         ELSE Coroutine("buffer", <<>>, input.data[1], run, TRUE))
                             /\ UNCHANGED prepared
                [] input.kind = "stream" ->
                     /\ busy' = TRUE
                     /\ proc' = started
                     /\ stream' = [open |-> TRUE, chunks |-> input.data,
                                   forceBlocking |-> forceBlocking]
                     /\ UNCHANGED <<asyncWords, asyncHasSentences, calls, prepared, immediates>>
                [] input.kind = "other" ->
                     /\ busy' = TRUE
                     /\ proc' = [started EXCEPT !.status = "rejected"]
                     /\ UNCHANGED <<asyncWords, asyncHasSentences, calls, prepared,
                                    immediates, stream>>

\* the "data" event of the stream: processBuffer(chunk) is called and not
\* awaited
StreamData ==
  /\ stream.open /\ stream.chunks # <<>>
  /\ LET run == BufferRun(AsyncModel, Head(stream.chunks), 1, <<>>, <<>>,
                          stream.forceBlocking)
     IN  /\ AsyncSet(run.m)
         /\ immediates' =
              IF run.done THEN immediates
              ELSE Append(immediates,
                          Coroutine("buffer", <<>>, Head(stream.chunks), run, FALSE))
  /\ stream' = [stream EXCEPT !.chunks = Tail(@)]
  /\ UNCHANGED <<busy, prepared, proc, syncVars>>

\* the "end" event of the stream: the promise of processStream resolves
StreamEnd ==
  /\ stream.open /\ stream.chunks = <<>>
  /\ stream' = NoStream
  /\ Resolve
  /\ UNCHANGED <<asyncWords, asyncHasSentences, calls, immediates, syncVars>>

\* the callback of setImmediate at the head of the queue: its coroutine goes
\* on to its next await or to its end
Immediate ==
  /\ immediates # <<>>
  /\ LET co  == Head(immediates)
         run == Resume(AsyncModel, co)
     IN  /\ AsyncSet(run.m)
         /\ immediates' =
              IF run.done THEN Tail(immediates)
              ELSE Append(Tail(immediates),
                          Coroutine(co.kind, co.words, co.bytes, run, co.awaited))
         /\ IF run.done /\ co.awaited THEN Resolve ELSE UNCHANGED <<busy, prepared, proc>>
  /\ UNCHANGED <<stream, syncVars>>

NextAsync ==
  \/ \E input \in AsyncInputs, forceBlocking \in BOOLEAN : Process(input, forceBlocking)
  \/ StreamData
  \/ StreamEnd
  \/ Immediate

SpecAsync == Init /\ [][NextAsync]_vars

(***************************************************************************)
(* Observations                                                            *)
(***************************************************************************)
\* the node of word w in instance i
Entry(i, w) == heap[nodes[i][w]]

\* the size accessor
Size(i) == Cardinality(DOMAIN nodes[i])

\* the sum of the values of node.related
RECURSIVE RelatedSumFrom(_, _)
RelatedSumFrom(node, k) ==
  IF k > Len(node.related) THEN 0
  ELSE JsAdd(node.related[k].count, RelatedSumFrom(node, k + 1))

RelatedSum(node) == RelatedSumFrom(node, 1)

\* the sum of total over the entries of instance i
TotalsOf(i) == SumOver([id \in Range(nodes[i]) |-> heap[id].total], Range(nodes[i]))

\* the number of rolls in [0, total) for which selectWeighted returns w
RollsFor(node, w) == Cardinality({r \in Rolls(node.total) : selectWeighted(node, r) = w})

\* size, edges, hasSentences and the counts of every word of instance i
View(i) ==
  [size |-> Size(i), edges |-> edges[i], hasSentences |-> hasSentences[i],
   words |-> [w \in DOMAIN nodes[i] |->
                [total   |-> Entry(i, w).total,
                 related |-> [x \in RelatedKeys(Entry(i, w)) |-> RelatedGet(Entry(i, w), x)]]]]

\* what can be observed of the entries of instance i, compiled state included
Entries(i) == [w \in DOMAIN nodes[i] |-> Entry(i, w)]

(***************************************************************************)
(* Properties                                                              *)
(***************************************************************************)

\* C1  Dirty invalidation: for an entry that was compiled and then touched
\* by add (its sums are not empty, its mapped flag is false), selectWeighted
\* returns every successor w for exactly related[w] of the rolls in
\* [0, total).
DirtyInvalidation ==
  \A w \in DOMAIN nodes[1] :
    LET node == Entry(1, w)
    IN  (~node.mapped /\ DOMAIN node.sums # {})
          => \A x \in RelatedKeys(node) : RollsFor(node, x) = RelatedGet(node, x)

\* C2  Compiled distribution: in every entry whose mapped flag is true the
\* thresholds of sums are strictly increasing, the largest equals total, and
\* every successor of related is the target of exactly one threshold.
CompiledDistribution ==
  \A w \in DOMAIN nodes[1] :
    LET node == Entry(1, w)
        keys == SumsKeys(node)
    IN  node.mapped
          => /\ \A k \in 1..(Len(keys) - 1) : keys[k] < keys[k + 1]
             /\ keys # <<>> /\ keys[Len(keys)] = node.total
             /\ \A x \in RelatedKeys(node) :
                  Cardinality({t \in DOMAIN node.sums : node.sums[t] = x}) = 1

\* C3  edgeCount: the edges accessor equals the sum of total over the
\* entries of the model.
EdgeCount == edges[1] = TotalsOf(1)

\* C4  reset postcondition: after reset() the model has size 0, edges 0 and
\* hasSentences false.
ResetClears ==
  [][Reset(1) => (Size(1)' = 0 /\ edges'[1] = 0 /\ hasSentences'[1] = "false")]_vars

\* C5  Mass conservation: every entry has total equal to the sum of the
\* values of related, every related count positive, and total > 0.
MassConservation ==
  \A w \in DOMAIN nodes[1] :
    LET node == Entry(1, w)
    IN  /\ node.total = RelatedSum(node)
        /\ \A k \in 1..Len(node.related) :
             node.related[k].count # NaN /\ node.related[k].count > 0
        /\ node.total > 0

\* the other instance
Other(i) == CHOOSE j \in Inst : j # i

\* C6  Independence: add, reset, load and generation on one instance leave
\* the size, the totals, the related counts and the compiled state of the
\* other instance as they were.
Independence ==
  [][\A i \in Inst :
       (\/ \E string \in TextsInherited : Add(i, string, MaxShared)
        \/ Reset(i)
        \/ \E data \in ForeignInputs : Load(i, data, MaxShared)
        \/ \E root \in Roots, key \in Roots : GenerateWord(i, root, key))
       => Entries(Other(i))' = Entries(Other(i))]_vars

\* C7  Round trip: the model j obtained by j.load(i.toJSON()), the
\* Representation handed over as it is or as its JSON text, has the size,
\* the edges, the hasSentences and, for every word, the related counts and
\* the total of the model i.
RoundTrip ==
  [][\A i \in Inst, j \in Inst, text \in BOOLEAN :
       LoadFrom(j, i, SnapshotInput(Representation(i), text), MaxShared)
         => View(j)' = View(i)]_vars

\* C8  Load never trusts a persisted distribution: right after a load that
\* returned, every entry of the loaded model is dirty (its mapped flag is
\* false).
LoadedDirty ==
  [][\A i \in Inst, j \in Inst :
       \A data \in SnapshotInputs(Representation(i)) :
         (LoadFrom(j, i, data, MaxShared) /\ ~raised')
           => \A w \in DOMAIN nodes'[j] : ~Entry(j, w)'.mapped]_vars

\* C9  No partial failure: when load raises, the entries, the edges and the
\* hasSentences of the model are what they were before the call.
LoadAtomic ==
  [][\A data \in ForeignInputs :
       (Load(1, data, MaxEdges) /\ raised')
         => /\ Entries(1)' = Entries(1)
            /\ edges'[1] = edges[1]
            /\ hasSentences'[1] = hasSentences[1]]_vars

\* an object that lacks the entries sequence or the hasSentences flag
MissingFields(data) ==
  data.parse = "ok" /\ (data.wordsKind = "absent" \/ data.hasSentences = "undefined")

\* C10  Malformed snapshot: load of an object that lacks the entries
\* sequence or the hasSentences flag raises an error.
LoadRejectsMissingFields ==
  [][\A data \in ForeignInputs \cup SnapshotInputs(Representation(1)) :
       ((Load(1, data, MaxEdges) \/ LoadFrom(1, 1, data, MaxEdges)) /\ MissingFields(data))
         => raised']_vars

\* C11  Draw totality in src/index.js: on every entry with total > 0,
\* selectWeighted returns for every roll in [0, total) a word that is a key
\* of the entry's related, never null.
DrawTotality ==
  \A w \in DOMAIN words :
    words[w].total > 0
      => \A roll \in Rolls(words[w].total) :
           IndexSelectWeighted(words[w], roll) \in RelatedKeys(words[w])

\* the model has exactly one entry, a -> {b: 1}; b has no entry
OneEntryModel ==
  /\ DOMAIN nodes[1] = {<<"a">>}
  /\ Entry(1, <<"a">>).total = 1
  /\ Entry(1, <<"a">>).related = <<[word |-> <<"b">>, count |-> 1]>>

\* the last call was generateWords(3, null, {stop: true})
DeadEndCall ==
  call = [op |-> "generateWords", amount |-> Number("integer", 3),
          root |-> Null, stop |-> TRUE]

\* C12 (as stated)  On the model with the one entry a -> {b: 1},
\* generateWords(3, no start, stop = true) returns exactly the two words
\* a, b: the starting key first, its drawn successor second.
DeadEndScenario ==
  (OneEntryModel /\ DeadEndCall) => (~raised /\ output = << <<"a">>, <<"b">> >>)

\* C12 (amended)  On the model with the one entry a -> {b: 1},
\* generateWords(3, no start, stop = true) returns exactly the one word b:
\* the starting key is not put into the output, its drawn successor is the
\* only word, and generation halts at the dead end.
DeadEndSuccessorOnly ==
  (OneEntryModel /\ DeadEndCall) => (~raised /\ output = << <<"b">> >>)

DeadEndWitness == OneEntryModel /\ DeadEndCall /\ ~raised /\ output = << <<"b">> >>

\* C13  With stop = false, generateWords(n, start) on a model that is not
\* empty never raises and returns exactly n generated words, after the start
\* word when one is given, none of them null.
NoHaltOutput ==
  (call.op = "generateWords" /\ ~call.stop /\ ~InvalidAmount(call.amount)
     /\ nodes[1] # EmptyMap)
    => /\ ~raised
       /\ Len(output) = call.amount.n + Len(OutputStart(call.root))
       /\ \A k \in 1..Len(output) : output[k] # Null

\* a model as the constructor leaves it
Fresh(i) == nodes[i] = EmptyMap /\ edges[i] = 0 /\ hasSentences[i] = "false"

\* C14 (as stated)  After add("The cat sat. The dog ran.") on a fresh model,
\* hasSentences is true, size is 5 and edges is 5.
ScenarioSizeFive ==
  [][(Fresh(1) /\ Add(1, ScenarioText, MaxScenario))
       => (hasSentences'[1] = "true" /\ Size(1)' = 5 /\ edges'[1] = 5)]_vars

\* C14 (amended)  After add("The cat sat. The dog ran.") on a fresh model,
\* hasSentences is true, size is 4 (the words The, cat, sat., dog, which
\* have a successor; ran. has none and no entry) and edges is 5.
ScenarioSizeFour ==
  [][(Fresh(1) /\ Add(1, ScenarioText, MaxScenario))
       => (/\ hasSentences'[1] = "true"
           /\ DOMAIN nodes'[1] = {<<"T", "h", "e">>, <<"c", "a", "t">>,
                                  <<"s", "a", "t", ".">>, <<"d", "o", "g">>}
           /\ Size(1)' = 4
           /\ edges'[1] = 5)]_vars

ScenarioWitness ==
  /\ ingested = 5 /\ edges[1] = 5 /\ Size(1) = 4
  /\ <<"T", "h", "e">> \in DOMAIN nodes[1]
  /\ Entry(1, <<"T", "h", "e">>).related =
       << [word |-> <<"c", "a", "t">>, count |-> 1], [word |-> <<"d", "o", "g">>, count |-> 1] >>
  /\ Entry(1, <<"s", "a", "t", ".">>).related = << [word |-> <<"T", "h", "e">>, count |-> 1] >>

\* what add has written in instance i: the entries, their totals and related
\* counts, edges and hasSentences
Counts(i) ==
  [nodes |-> nodes[i], edges |-> edges[i], hasSentences |-> hasSentences[i],
   entries |-> [w \in DOMAIN nodes[i] |->
                  [total |-> Entry(i, w).total, related |-> Entry(i, w).related]]]

\* C16  Compilation and generation are pure cache fills: calculateWeights,
\* finalize, toJSON, generateWord, generateWords and generateSentences leave
\* the set of entries, every entry's related counts and total, edges and
\* hasSentences unchanged.
PureCacheFill ==
  [][\/ Counts(1)' = Counts(1)
     \/ ~(\/ \E w \in Words, force \in BOOLEAN : CalculateWeights(1, w, force)
          \/ Finalize(1)
          \/ ToJSON(1)
          \/ \E root \in Roots, key \in Roots : GenerateWord(1, root, key)
          \/ \E amount \in Amounts, root \in GenRoots, stop \in BOOLEAN :
               GenerateWords(1, amount, root, stop)
          \/ \E amount \in Amounts, root \in GenRoots :
               GenerateSentences(1, amount, root))]_vars

\* generateSentences has returned and every entry of a model of two entries
\* is compiled
CacheFilled ==
  /\ call.op = "generateSentences" /\ ~raised /\ Size(1) = 2
  /\ \A w \in DOMAIN nodes[1] : Entry(1, w).mapped /\ DOMAIN Entry(1, w).sums # {}

\* C17  Idempotent compilation: on any entry, after a first call of
\* calculateWeights (unforced or forced) a second call (unforced or forced)
\* leaves sums with the same thresholds and the same words, and mapped true.
IdempotentCompilation ==
  \A w \in DOMAIN nodes[1], first \in BOOLEAN, second \in BOOLEAN :
    LET once  == calculateWeights(Entry(1, w), first)
        twice == calculateWeights(once, second)
    IN  twice.sums = once.sums /\ twice.mapped

\* the words of output that were generated: all but a start word that was
\* pushed first
Generated == SubSeq(output, Len(OutputStart(call.root)) + 1, Len(output))

\* the number of words of seq that contain one of . ! ?
Terminators(seq) ==
  Cardinality({k \in 1..Len(seq) : seq[k] # Null /\ \E c \in Range(seq[k]) : c \in {".", "!", "?"}})

\* C18  When generateSentences(n, start) returns, exactly n of the generated
\* words contain one of . ! ? and the last generated word is one of them.
SentenceCount ==
  (call.op = "generateSentences" /\ ~raised)
    => /\ Terminators(Generated) = call.amount.n
       /\ Generated # <<>>
       /\ Terminators(<<Generated[Len(Generated)]>>) = 1

\* generateSentences(2, ...) has returned three generated words
SentenceCountWitness ==
  /\ call.op = "generateSentences" /\ ~raised
  /\ call.amount = Number("integer", 2)
  /\ Len(Generated) = 3

\* a count that is zero, negative, not an integer or not finite
BadCount(amount) == ~(amount.kind = "integer" /\ amount.n > 0)

\* C19  Count validation: generateWords and generateSentences called with a
\* count that is zero, negative, not an integer or not finite raise an error,
\* draw no word and leave the entries, their compiled state, edges and
\* hasSentences as they were.
CountValidation ==
  [][\A amount \in {x \in Amounts : BadCount(x)}, root \in GenRoots, stop \in BOOLEAN :
       (GenerateWords(1, amount, root, stop) \/ GenerateSentences(1, amount, root))
         => /\ raised' /\ output' = <<>>
            /\ heap' = heap /\ nodes' = nodes
            /\ edges' = edges /\ hasSentences' = hasSentences]_vars

\* generateWords has raised for the count 3/2 on a model that is not empty
CountValidationWitness ==
  /\ call.op = "generateWords" /\ call.amount = Number("half", 1)
  /\ raised /\ nodes[1] # EmptyMap /\ Truthy(hasSentences[1])

\* C20  On a model built from a new model by add calls whose texts have none
\* of the characters . ! ?, generateSentences with any count raises the
\* error that the data has no delimiters, and draws no word.
NoPunctuationRaises ==
  [][\A amount \in Amounts, root \in GenRoots :
       (~punctuated /\ GenerateSentences(1, amount, root))
         => (raised' /\ error' = "delimiters" /\ output' = <<>> /\ heap' = heap)]_vars

\* generateSentences(1, ...) has raised on a model that is not empty and was
\* fed no punctuation
NoPunctuationWitness ==
  /\ call.op = "generateSentences" /\ call.amount = Number("integer", 1)
  /\ ~punctuated /\ raised /\ error = "delimiters" /\ nodes[1] # EmptyMap

\* C15  Cooperative yielding does not alter ingestion: when the promise of
\* process(input, forceBlocking = false) has resolved, busy is false,
\* prepared is true, and the _addWords calls made since the call are those
\* that forceBlocking = true makes for the input, all of them, in that order.
SameCallsWhenResolved ==
  (proc.status = "resolved" /\ ~proc.forceBlocking)
    => /\ ~busy /\ prepared
       /\ SubSeq(calls, proc.from + 1, Len(calls)) = BlockingCalls(proc.input)

\* a word that contains one of . ! ? is a successor in some entry of
\* instance i
TerminatorSuccessor(i) ==
  \E w \in DOMAIN nodes[i] : \E v \in RelatedKeys(Entry(i, w)) : sentenceRegexTest(v)

\* the checks that generateSentences makes before its loop pass on instance
\* i for a valid count
SentencesChecksPass(i) == Truthy(hasSentences[i]) /\ nodes[i] # EmptyMap

BusyReleased == (proc.status \in {"resolved", "rejected"}) => ~busy

\* output.join(" "): null is rendered as the empty string
RECURSIVE Join(_)
Join(q) ==
  IF q = <<>> THEN <<>>
  ELSE IF Len(q) = 1 THEN q[1]
  ELSE q[1] \o <<" ">> \o Join(Tail(q))

\* the words of the string that generateWords returns
Returned == Tokenize(Join(output))

\* v was stored as a successor of u in instance i: u has an entry and the
\* count of v in its related is positive
Observed(i, u, v) ==
  u \in DOMAIN nodes[i] /\ JsLess(0, RelatedGet(Entry(i, u), v))

\* C23  With stop = true, on a model built by add calls, every adjacent pair
\* (u, v) of words in what generateWords(n, start) returns is an observed
\* transition (related[v] > 0 in the entry of u), the first generated word
\* is a successor of the start word when one is given, and at most n words
\* are generated.
ObservedWalk ==
  (call.op = "generateWords" /\ call.stop /\ ~raised)
    => /\ \A k \in 1..(Len(Returned) - 1) : Observed(1, Returned[k], Returned[k + 1])
       /\ (call.root # Null /\ Len(Returned) >= 2)
            => (Returned[1] = call.root /\ Observed(1, call.root, Returned[2]))
       /\ Len(Returned) - Len(OutputStart(call.root)) <= call.amount.n
       /\ Len(Returned) = Len(output)

\* generateWords(2, a, stop = true) has returned a and two generated words
ObservedWalkWitness ==
  /\ call.op = "generateWords" /\ call.stop /\ ~raised
  /\ call.root = <<"a">> /\ call.amount = Number("integer", 2)
  /\ Len(Returned) = 3

====
